---------------------------- MODULE Spec2Model ----------------------------
(***************************************************************************)
(* State-machine model of src/src/swap.ts: the swap-initiation protocol    *)
(* (validateAmount, validateProps, swap) and the two collaborators it      *)
(* talks to (the quote service and the orderbook).                         *)
(*                                                                         *)
(* JavaScript strings are modelled as sequences.  A string whose           *)
(* characters matter (an amount, a nonce, a secret hash) is the sequence   *)
(* of its characters; an opaque string (an address, an error message) is   *)
(* a one-element sequence holding its text; the empty string is << >>.     *)
(* The value undefined is the one-element sequence Undefined.              *)
(***************************************************************************)
EXTENDS Integers, Sequences, FiniteSets, TLC

VARIABLES
    arg,          \* input of the pure function under test (validateAmount / validateProps)
    ret,          \* what that function returned, NotCalled before the call
    now,          \* the wall clock read by Date.now()
    pc,           \* per invocation of swap: "idle", "awaitQuote", "awaitOrder", "done"
    props,        \* per invocation: the props swap was called with
    nonce,        \* per invocation: the nonce handed to generateSecret
    secret,       \* per invocation: the secret generateSecret derived
    secretCalls,  \* per invocation: the arguments of every generateSecret call
    quoteCalls,   \* per invocation: the order request of every getAttestedQuote call
    orderCalls,   \* per invocation: the arguments of every createOrder call
    quoteResp,    \* per invocation: what getAttestedQuote's promise settled to
    orderResp,    \* per invocation: what createOrder's promise settled to
    outcome,      \* per invocation: how swap's promise settled
    calledAt,     \* per invocation: the value Date.now() returned, UndefinedNum before the call
    secretResp    \* per invocation: what generateSecret returned, NotCalled if not called

vars ==
    << arg, ret, now, pc, props, nonce, secret, secretCalls, quoteCalls,
       orderCalls, quoteResp, orderResp, outcome, calledAt, secretResp >>

swapVars ==
    << now, pc, props, nonce, secret, secretCalls, quoteCalls,
       orderCalls, quoteResp, orderResp, outcome, calledAt, secretResp >>

---------------------------------------------------------------------------
\* Bounds of the model.

\* Longest amount string given to validateAmount on its own.
MaxLen ==
    3

\* Last value of the wall clock.
MaxTime ==
    2

---------------------------------------------------------------------------
\* JavaScript values.

Undefined ==
    << "undefined" >>

EmptyString ==
    << >>

\* An absent optional number (minDestinationConfirmations).
UndefinedNum ==
    -1

\* ToBoolean on a string or undefined: undefined and "" are falsy.
Truthy(v) ==
    v # Undefined /\ v # EmptyString

Digits ==
    { "0", "1", "2", "3", "4", "5", "6", "7", "8", "9" }

DigitValue(c) ==
    CASE c = "0" -> 0 [] c = "1" -> 1 [] c = "2" -> 2 [] c = "3" -> 3
      [] c = "4" -> 4 [] c = "5" -> 5 [] c = "6" -> 6 [] c = "7" -> 7
      [] c = "8" -> 8 [] c = "9" -> 9

DigitChar(d) ==
    CASE d = 0 -> "0" [] d = 1 -> "1" [] d = 2 -> "2" [] d = 3 -> "3"
      [] d = 4 -> "4" [] d = 5 -> "5" [] d = 6 -> "6" [] d = 7 -> "7"
      [] d = 8 -> "8" [] d = 9 -> "9"

\* Number.prototype.toString of a non-negative integer: its decimal digits.
RECURSIVE NumberToString(_)
NumberToString(n) ==
    IF n < 10 THEN << DigitChar(n) >>
    ELSE Append(NumberToString(n \div 10), DigitChar(n % 10))

\* The value of a sequence of decimal digits, most significant first.
RECURSIVE DigitsValue(_)
DigitsValue(ds) ==
    IF ds = << >> THEN 0
    ELSE 10 * DigitsValue(SubSeq(ds, 1, Len(ds) - 1)) + DigitValue(ds[Len(ds)])

RECURSIVE StripTrailingZeros(_)
StripTrailingZeros(ds) ==
    IF ds # << >> /\ ds[Len(ds)] = "0"
    THEN StripTrailingZeros(SubSeq(ds, 1, Len(ds) - 1))
    ELSE ds

---------------------------------------------------------------------------
\* bignumber.js, as far as validateAmount uses it.  A BigNumber is NaN or a
\* signed decimal: mant is its digits read as an integer with the trailing
\* zeros of the fraction dropped, dp the number of fraction digits left, so
\* its value is (-1)^neg * mant / 10^dp.

NaN ==
    [nan |-> TRUE, neg |-> FALSE, mant |-> 0, dp |-> 0]

\* Position of the first "." of s, or 0.
DotIndex(s) ==
    IF \E k \in 1..Len(s) : s[k] = "."
    THEN CHOOSE k \in 1..Len(s) : s[k] = "." /\ \A j \in 1..(k - 1) : s[j] # "."
    ELSE 0

\* The constructor's decimal grammar: -?(\d+(\.\d*)?|\.\d+)
IsNumeric(body) ==
    /\ \E k \in 1..Len(body) : body[k] \in Digits
    /\ \A k \in 1..Len(body) : body[k] \in Digits \/ body[k] = "."
    /\ Cardinality({ k \in 1..Len(body) : body[k] = "." }) <= 1

\* new BigNumber(str)
BigNumber(str) ==
    LET neg  == str # << >> /\ str[1] = "-"
        body == IF neg THEN Tail(str) ELSE str
        dot  == DotIndex(body)
        int  == IF dot = 0 THEN body ELSE SubSeq(body, 1, dot - 1)
        frac == IF dot = 0 THEN << >>
                ELSE StripTrailingZeros(SubSeq(body, dot + 1, Len(body)))
    IN  IF IsNumeric(body)
        THEN [nan |-> FALSE, neg |-> neg,
              mant |-> DigitsValue(int \o frac), dp |-> Len(frac)]
        ELSE NaN

isNaN(x) ==
    x.nan

isInteger(x) ==
    ~x.nan /\ x.dp = 0

\* x.isLessThanOrEqualTo(0): a comparison with NaN is false.
isLessThanOrEqualToZero(x) ==
    ~x.nan /\ (x.neg \/ x.mant = 0)

---------------------------------------------------------------------------
\* validateAmount

InvalidAmount(amount) ==
    << "Invalid amount " >> \o amount

\* The amount check without its test for values <= 0.
validateAmount_NoSignCheck(amount) ==
    LET amountBigInt == BigNumber(amount)
    IN  IF ~isInteger(amountBigInt) \/ isNaN(amountBigInt)
        THEN [ok |-> FALSE, val |-> NaN, error |-> InvalidAmount(amount)]
        ELSE [ok |-> TRUE, val |-> amountBigInt, error |-> Undefined]

\* A failing result carries no val; the field then holds NaN as a filler.
validateAmount(amount) ==
    LET amountBigInt == BigNumber(amount)
    IN  IF \/ ~isInteger(amountBigInt)
           \/ isNaN(amountBigInt)
           \/ isLessThanOrEqualToZero(amountBigInt)
        THEN [ok |-> FALSE, val |-> NaN, error |-> InvalidAmount(amount)]
        ELSE [ok |-> TRUE, val |-> amountBigInt, error |-> Undefined]

---------------------------------------------------------------------------
\* The chain registry of @gardenfi/orderbook, for the chains of the model.

Chains ==
    { "bitcoin", "ethereum", "bitcoin_testnet", "ethereum_sepolia" }

isBitcoin(chain) ==
    chain \in { "bitcoin", "bitcoin_testnet" }

isMainnet(chain) ==
    chain \in { "bitcoin", "ethereum" }

getTimeLock(chain) ==
    CASE chain = "bitcoin" -> 144
      [] chain = "bitcoin_testnet" -> 145
      [] chain = "ethereum" -> 7200
      [] chain = "ethereum_sepolia" -> 7201

---------------------------------------------------------------------------
\* The relational operator < of JavaScript on two plain objects (line 152
\* compares the two Result objects validateAmount returned).  Each operand
\* goes through ToPrimitive: Object.prototype.valueOf returns the object
\* itself, so Object.prototype.toString supplies the primitive, the string
\* "[object Object]", given here by its code units; two strings are then
\* compared by code unit.

ObjectObject ==
    << 91, 111, 98, 106, 101, 99, 116, 32, 79, 98, 106, 101, 99, 116, 93 >>

ToPrimitive(object) ==
    ObjectObject

RECURSIVE StringLess(_, _)
StringLess(s, t) ==
    IF t = << >> THEN FALSE
    ELSE IF s = << >> THEN TRUE
    ELSE IF s[1] # t[1] THEN s[1] < t[1]
    ELSE StringLess(Tail(s), Tail(t))

LessThan(x, y) ==
    StringLess(ToPrimitive(x), ToPrimitive(y))

---------------------------------------------------------------------------
\* validateProps

StrategyIdRequired ==
    << "StrategyId is required" >>

SameAssets ==
    << "Source and destination assets cannot be the same" >>

NetworkMismatch ==
    << "Both assets should be on the same network (either mainnet or testnet)" >>

SendNotGreater ==
    << "Send amount should be greater than receive amount" >>

BtcAddressRequired ==
    << "btcAddress in additionalData is required if source or destination chain is bitcoin, it is used as refund or redeem address." >>

\* The val of a failing validateProps result (the field is absent).
NoProps ==
    [absent |-> TRUE]

PropsErr(error) ==
    [ok |-> FALSE, val |-> NoProps, error |-> error]

PropsOk(p) ==
    [ok |-> TRUE, val |-> p, error |-> Undefined]

MissingStrategyId(p) ==
    ~Truthy(p.additionalData.strategyId)

\* The identical-assets rule comparing the chains only.
IdenticalAssets_ChainOnly(p) ==
    p.fromAsset.chain = p.toAsset.chain

IdenticalAssets(p) ==
    /\ p.fromAsset.chain = p.toAsset.chain
    /\ p.fromAsset.atomicSwapAddress = p.toAsset.atomicSwapAddress

\* The network rule catching a mainnet source with a testnet destination only.
MixedNetworks_OneWay(p) ==
    isMainnet(p.fromAsset.chain) /\ ~isMainnet(p.toAsset.chain)

MixedNetworks(p) ==
    \/ isMainnet(p.fromAsset.chain) /\ ~isMainnet(p.toAsset.chain)
    \/ ~isMainnet(p.fromAsset.chain) /\ isMainnet(p.toAsset.chain)

\* The btcAddress rule looking at the source leg only.
MissingBtcAddress_SourceOnly(p) ==
    /\ isBitcoin(p.fromAsset.chain)
    /\ ~Truthy(p.additionalData.btcAddress)

MissingBtcAddress(p) ==
    /\ isBitcoin(p.fromAsset.chain) \/ isBitcoin(p.toAsset.chain)
    /\ ~Truthy(p.additionalData.btcAddress)

validateProps(p) ==
    LET inputAmount  == validateAmount(p.sendAmount)
        outputAmount == validateAmount(p.receiveAmount)
    IN  IF MissingStrategyId(p) THEN PropsErr(StrategyIdRequired)
        ELSE IF IdenticalAssets(p) THEN PropsErr(SameAssets)
        ELSE IF MixedNetworks(p) THEN PropsErr(NetworkMismatch)
        ELSE IF Truthy(inputAmount.error) THEN PropsErr(inputAmount.error)
        ELSE IF Truthy(outputAmount.error) THEN PropsErr(outputAmount.error)
        ELSE IF LessThan(inputAmount, outputAmount) THEN PropsErr(SendNotGreater)
        ELSE IF MissingBtcAddress(p) THEN PropsErr(BtcAddressRequired)
        ELSE PropsOk(p)

---------------------------------------------------------------------------
\* Inputs.

SeqsUpTo(S, n) ==
    UNION { [1..k -> S] : k \in 0..n }

AmountAlphabet ==
    { "0", "1", "5", "-", ".", "a", "b", "c" }

AmountStrings ==
    SeqsUpTo(AmountAlphabet, MaxLen)

StrategyIds ==
    { Undefined, EmptyString, << "s1" >> }

BtcAddresses ==
    { Undefined, EmptyString, << "bc1qrefund" >> }

Assets ==
    [chain : Chains, atomicSwapAddress : { << "0xA" >>, << "0xB" >> }]

\* Amounts of the props: "9", "10", "0", "1.5", "a".
PropsAmounts ==
    { << "9" >>, << "1", "0" >>, << "0" >>, << "1", ".", "5" >>, << "a" >> }

\* The props validateProps is applied to on its own: every combination of
\* the fields it reads; the fields it does not read are fixed.
ValidateInputs ==
    [ additionalData : [strategyId : StrategyIds, btcAddress : BtcAddresses],
      fromAsset : Assets,
      toAsset : Assets,
      sendAmount : PropsAmounts,
      receiveAmount : PropsAmounts,
      minDestinationConfirmations : { UndefinedNum },
      btcPublicKey : { << "btcPub" >> },
      btcRecipientAddress : { EmptyString },
      evmAddress : { << "0xEvm" >> } ]

---------------------------------------------------------------------------
\* State of the swap invocations.

Invocations ==
    { 1, 2 }

NotCalled ==
    [called |-> FALSE]

Pending ==
    [state |-> "pending", ok |-> FALSE, error |-> Undefined,
     orderId |-> Undefined, secret |-> Undefined]

NoResponse ==
    [state |-> "none", ok |-> FALSE, val |-> Undefined, error |-> Undefined]

SwapInit ==
    /\ now = 0
    /\ pc = [i \in Invocations |-> "idle"]
    /\ props = [i \in Invocations |-> NoProps]
    /\ nonce = [i \in Invocations |-> Undefined]
    /\ secret = [i \in Invocations |-> Undefined]
    /\ secretCalls = [i \in Invocations |-> << >>]
    /\ quoteCalls = [i \in Invocations |-> << >>]
    /\ orderCalls = [i \in Invocations |-> << >>]
    /\ quoteResp = [i \in Invocations |-> NoResponse]
    /\ orderResp = [i \in Invocations |-> NoResponse]
    /\ outcome = [i \in Invocations |-> Pending]
    /\ calledAt = [i \in Invocations |-> UndefinedNum]
    /\ secretResp = [i \in Invocations |-> NotCalled]

---------------------------------------------------------------------------
\* The collaborators of swap.

\* digestKey.digestKey of ./utils and auth of ./auth: opaque values.
digestKey ==
    << "digestKey" >>

auth ==
    << "auth" >>

RECURSIVE Reverse(_)
Reverse(s) ==
    IF s = << >> THEN << >> ELSE Append(Reverse(Tail(s)), Head(s))

\* The secret derived from a digest key and a nonce, and the one-way digest
\* of a secret in 0x-prefixed hex form.
DeriveSecret(key, n) ==
    key \o << ":" >> \o n

SecretHashOf(s) ==
    << "0", "x", "d" >> \o Reverse(s)

SecretDerivationError ==
    << "SecretDerivationError" >>

\* generateSecret({digestKey, nonce}); fails says whether the derivation
\* primitive of the digest-key provider fails on this call.
generateSecret(args, fails) ==
    IF fails
    THEN [ok |-> FALSE, error |-> SecretDerivationError,
          val |-> [secret |-> Undefined, secretHash |-> Undefined]]
    ELSE [ok |-> TRUE, error |-> Undefined,
          val |-> [secret |-> DeriveSecret(args.digestKey, args.nonce),
                   secretHash |-> SecretHashOf(DeriveSecret(args.digestKey, args.nonce))]]

\* trim0x of @catalogfi/utils: drops a leading "0x".
trim0x(str) ==
    IF Len(str) >= 2 /\ str[1] = "0" /\ str[2] = "x"
    THEN SubSeq(str, 3, Len(str))
    ELSE str

\* What a collaborator's promise can fulfil with: a Result.
Fulfilled(ok, val, error) ==
    [state |-> "fulfilled", ok |-> ok, val |-> val, error |-> error]

Rejected ==
    [state |-> "rejected", ok |-> FALSE, val |-> Undefined, error |-> Undefined]

AttestedQuotes ==
    { << "attestedQuoteA" >>, << "attestedQuoteB" >> }

QuoteErrors ==
    { << "quote: no solver" >>, EmptyString }

OrderIds ==
    { << "order-1" >>, << "order-2" >> }

OrderErrors ==
    { << "orderbook: rejected" >>, EmptyString }

QuoteResults ==
    { Fulfilled(TRUE, q, Undefined) : q \in AttestedQuotes }
        \cup { Fulfilled(FALSE, Undefined, e) : e \in QuoteErrors }

OrderResults ==
    { Fulfilled(TRUE, o, Undefined) : o \in OrderIds }
        \cup { Fulfilled(FALSE, Undefined, e) : e \in OrderErrors }

---------------------------------------------------------------------------
\* swap

\* What swap's promise settles to.
Resolved(ok, error, orderId, s) ==
    [state |-> "resolved", ok |-> ok, error |-> error,
     orderId |-> orderId, secret |-> s]

PromiseRejected ==
    [state |-> "rejected", ok |-> FALSE, error |-> Undefined,
     orderId |-> Undefined, secret |-> Undefined]

\* Err(error) of @gardenfi/utils, as the value of swap's promise.
Err(error) ==
    Resolved(FALSE, error, Undefined, Undefined)

\* A validation failure reported under a fixed message.
ValidationFailure_Generic(validatedProps) ==
    Resolved(FALSE, << "Invalid props" >>, Undefined, Undefined)

\* Line 35: { error: validatedProps.error, ok: false }
ValidationFailure(validatedProps) ==
    Resolved(FALSE, validatedProps.error, Undefined, Undefined)

\* A secret failure reported under a fixed message.
SecretFailure_Generic(secretResult) ==
    Resolved(FALSE, << "Secret generation failed" >>, Undefined, Undefined)

\* Line 58: { error: secretResult.error, ok: false }
SecretFailure(secretResult) ==
    Resolved(FALSE, secretResult.error, Undefined, Undefined)

\* (isBitcoin(chain) && btcPublicKey) || evmAddress
ResolveAddress(chain, btcPublicKey, evmAddress) ==
    IF isBitcoin(chain) /\ Truthy(btcPublicKey) THEN btcPublicKey ELSE evmAddress

\* The order request with the secret itself in the secret_hash field.
OrderRequest_SecretSent(p, n, secretVal, timelock) ==
    [ additional_data |->
        [ strategy_id |-> p.additionalData.strategyId,
          bitcoin_optional_recipient |->
              IF Truthy(p.btcRecipientAddress) THEN p.btcRecipientAddress
              ELSE Undefined ],
      destination_amount |-> p.receiveAmount,
      destination_asset |-> p.toAsset.atomicSwapAddress,
      destination_chain |-> p.toAsset.chain,
      fee |-> << "1" >>,
      initiator_destination_address |->
          ResolveAddress(p.toAsset.chain, p.btcPublicKey, p.evmAddress),
      initiator_source_address |->
          ResolveAddress(p.fromAsset.chain, p.btcPublicKey, p.evmAddress),
      min_destination_confirmations |->
          IF p.minDestinationConfirmations = UndefinedNum THEN 0
          ELSE p.minDestinationConfirmations,
      nonce |-> n,
      secret_hash |-> trim0x(secretVal.secret),
      source_amount |-> p.sendAmount,
      source_asset |-> p.fromAsset.atomicSwapAddress,
      source_chain |-> p.fromAsset.chain,
      timelock |-> timelock ]

\* The order request with the timelock of the destination chain.
OrderRequest_DestinationTimelock(p, n, secretVal, timelock) ==
    [ OrderRequest_SecretSent(p, n, secretVal, timelock)
        EXCEPT !.secret_hash = trim0x(secretVal.secretHash),
               !.timelock = getTimeLock(p.toAsset.chain) ]

\* Lines 63-88: additionalData, receiveAddress, sendAddress, orderRequest.
\* A key the spread leaves out of additional_data holds Undefined.
OrderRequest(p, n, secretVal, timelock) ==
    [ additional_data |->
        [ strategy_id |-> p.additionalData.strategyId,
          bitcoin_optional_recipient |->
              IF Truthy(p.btcRecipientAddress) THEN p.btcRecipientAddress
              ELSE Undefined ],
      destination_amount |-> p.receiveAmount,
      destination_asset |-> p.toAsset.atomicSwapAddress,
      destination_chain |-> p.toAsset.chain,
      fee |-> << "1" >>,
      initiator_destination_address |->
          ResolveAddress(p.toAsset.chain, p.btcPublicKey, p.evmAddress),
      initiator_source_address |->
          ResolveAddress(p.fromAsset.chain, p.btcPublicKey, p.evmAddress),
      min_destination_confirmations |->
          IF p.minDestinationConfirmations = UndefinedNum THEN 0
          ELSE p.minDestinationConfirmations,
      nonce |-> n,
      secret_hash |-> trim0x(secretVal.secretHash),
      source_amount |-> p.sendAmount,
      source_asset |-> p.fromAsset.atomicSwapAddress,
      source_chain |-> p.fromAsset.chain,
      timelock |-> timelock ]

\* Lines 33-90, the synchronous part of swap(p) started at clock value t:
\* the calls it makes and where it stops.
\* The nonce taken from a clock counted in units of two milliseconds.
Nonce_Coarse(t) ==
    NumberToString(t \div 2)

\* Line 52: Date.now().toString(), for the clock value t.
Nonce(t) ==
    NumberToString(t)

SwapStart(p, t, secretFails) ==
    LET validatedProps == validateProps(p)
        timelock       == getTimeLock(p.fromAsset.chain)
        n              == Nonce(t)
        secretArgs     == [digestKey |-> digestKey, nonce |-> n]
        secretResult   == generateSecret(secretArgs, secretFails)
        none           == [pc |-> "done", nonce |-> Undefined, secret |-> Undefined,
                           secretCalls |-> << >>, quoteCalls |-> << >>,
                           secretResp |-> NotCalled, outcome |-> Pending]
    IN  IF ~validatedProps.ok
        THEN [none EXCEPT !.outcome = ValidationFailure(validatedProps)]
        ELSE IF ~secretResult.ok
        THEN [none EXCEPT !.nonce = n,
                          !.secretCalls = << secretArgs >>,
                          !.secretResp = secretResult,
                          !.outcome = SecretFailure(secretResult)]
        ELSE [pc |-> "awaitQuote", nonce |-> n,
              secret |-> secretResult.val.secret,
              secretCalls |-> << secretArgs >>,
              secretResp |-> secretResult,
              quoteCalls |-> << OrderRequest(validatedProps.val, n,
                                             secretResult.val, timelock) >>,
              outcome |-> Pending]

\* swap(p) is called, for some p of inputs.
Call(i, inputs) ==
    /\ pc[i] = "idle"
    /\ \E p \in inputs, secretFails \in BOOLEAN :
         LET s == SwapStart(p, now, secretFails)
         IN  /\ pc' = [pc EXCEPT ![i] = s.pc]
             /\ props' = [props EXCEPT ![i] = p]
             /\ nonce' = [nonce EXCEPT ![i] = s.nonce]
             /\ secret' = [secret EXCEPT ![i] = s.secret]
             /\ secretCalls' = [secretCalls EXCEPT ![i] = s.secretCalls]
             /\ quoteCalls' = [quoteCalls EXCEPT ![i] = s.quoteCalls]
             /\ outcome' = [outcome EXCEPT ![i] = s.outcome]
             /\ secretResp' = [secretResp EXCEPT ![i] = s.secretResp]
    /\ calledAt' = [calledAt EXCEPT ![i] = now]
    /\ UNCHANGED << arg, ret, now, orderCalls, quoteResp, orderResp >>

\* Lines 91-97: getAttestedQuote's promise fulfils with result.
QuoteFulfils(i) ==
    /\ pc[i] = "awaitQuote"
    /\ \E result \in QuoteResults :
         /\ quoteResp' = [quoteResp EXCEPT ![i] = result]
         /\ IF Truthy(result.error)
            THEN /\ outcome' = [outcome EXCEPT ![i] = Err(result.error)]
                 /\ pc' = [pc EXCEPT ![i] = "done"]
                 /\ UNCHANGED orderCalls
            ELSE /\ orderCalls' = [orderCalls EXCEPT ![i] =
                      Append(@, [attestedQuote |-> result.val, auth |-> auth])]
                 /\ pc' = [pc EXCEPT ![i] = "awaitOrder"]
                 /\ UNCHANGED outcome
    /\ UNCHANGED << arg, ret, now, props, nonce, secret, secretCalls,
                    calledAt, secretResp,
                    quoteCalls, orderResp >>

\* getAttestedQuote's promise rejects: no handler of swap catches it.
QuoteRejects(i) ==
    /\ pc[i] = "awaitQuote"
    /\ quoteResp' = [quoteResp EXCEPT ![i] = Rejected]
    /\ outcome' = [outcome EXCEPT ![i] = PromiseRejected]
    /\ pc' = [pc EXCEPT ![i] = "done"]
    /\ UNCHANGED << arg, ret, now, props, nonce, secret, secretCalls,
                    calledAt, secretResp,
                    quoteCalls, orderCalls, orderResp >>

\* createOrder's handler asking for a fresh quote when the order failed.
OrderFulfils_Retry(i) ==
    /\ pc[i] = "awaitOrder"
    /\ \E orderIdResult \in OrderResults :
         /\ orderResp' = [orderResp EXCEPT ![i] = orderIdResult]
         /\ IF Truthy(orderIdResult.error)
            THEN /\ pc' = [pc EXCEPT ![i] = "awaitQuote"]
                 /\ UNCHANGED outcome
            ELSE /\ pc' = [pc EXCEPT ![i] = "done"]
                 /\ outcome' = [outcome EXCEPT ![i] =
                        Resolved(TRUE, Undefined, orderIdResult.val, secret[i])]
    /\ UNCHANGED << arg, ret, now, props, nonce, secret, secretCalls,
                    calledAt, secretResp,
                    quoteCalls, orderCalls, quoteResp >>

\* Lines 98-110: createOrder's promise fulfils with orderIdResult.
OrderFulfils(i) ==
    /\ pc[i] = "awaitOrder"
    /\ \E orderIdResult \in OrderResults :
         /\ orderResp' = [orderResp EXCEPT ![i] = orderIdResult]
         /\ outcome' = [outcome EXCEPT ![i] =
                IF Truthy(orderIdResult.error)
                THEN Err(orderIdResult.error)
                ELSE Resolved(TRUE, Undefined, orderIdResult.val, secret[i])]
    /\ pc' = [pc EXCEPT ![i] = "done"]
    /\ UNCHANGED << arg, ret, now, props, nonce, secret, secretCalls,
                    calledAt, secretResp,
                    quoteCalls, orderCalls, quoteResp >>

\* createOrder's promise rejects.
OrderRejects(i) ==
    /\ pc[i] = "awaitOrder"
    /\ orderResp' = [orderResp EXCEPT ![i] = Rejected]
    /\ outcome' = [outcome EXCEPT ![i] = PromiseRejected]
    /\ pc' = [pc EXCEPT ![i] = "done"]
    /\ UNCHANGED << arg, ret, now, props, nonce, secret, secretCalls,
                    calledAt, secretResp,
                    quoteCalls, orderCalls, quoteResp >>

\* A millisecond passes.
Tick ==
    /\ now < MaxTime
    /\ now' = now + 1
    /\ UNCHANGED << arg, ret, pc, props, nonce, secret, secretCalls,
                    calledAt, secretResp,
                    quoteCalls, orderCalls, quoteResp, orderResp, outcome >>

\* The props swap is called with.
SwapInputs ==
    [ additionalData : [strategyId : { Undefined, << "s1" >> },
                        btcAddress : { Undefined, << "bc1qrefund" >> }],
      fromAsset : [chain : Chains, atomicSwapAddress : { << "0xA" >> }],
      toAsset : Assets,
      sendAmount : { << "1", "0" >>, << "9" >>, << "a" >> },
      receiveAmount : { << "9" >>, << "0" >> },
      minDestinationConfirmations : { UndefinedNum, 3 },
      btcPublicKey : { EmptyString, << "btcPub" >> },
      btcRecipientAddress : { EmptyString, << "bc1qrecipient" >> },
      evmAddress : { << "0xEvm" >> } ]

\* One invocation of swap against the two collaborators.
Init ==
    /\ arg = NotCalled
    /\ ret = NotCalled
    /\ SwapInit

Next ==
    \/ Call(1, SwapInputs)
    \/ QuoteFulfils(1)
    \/ QuoteRejects(1)
    \/ OrderFulfils(1)
    \/ OrderRejects(1)
    \/ Tick

Spec ==
    Init /\ [][Next]_vars

---------------------------------------------------------------------------
\* Two invocations of swap in flight at once, sharing the digest key and the
\* clock, their steps interleaved in every order.

ConcurrentInputs ==
    { p \in SwapInputs :
        /\ p.additionalData.strategyId = << "s1" >>
        /\ p.additionalData.btcAddress = << "bc1qrefund" >>
        /\ p.fromAsset.chain = "ethereum"
        /\ p.toAsset \in { [chain |-> "ethereum", atomicSwapAddress |-> << "0xB" >>],
                           [chain |-> "bitcoin", atomicSwapAddress |-> << "0xA" >>] }
        /\ p.sendAmount \in { << "1", "0" >>, << "a" >> }
        /\ p.receiveAmount = << "9" >>
        /\ p.minDestinationConfirmations = 3
        /\ p.btcPublicKey = << "btcPub" >>
        /\ p.btcRecipientAddress = EmptyString }

NextConcurrent ==
    \/ \E i \in Invocations : Call(i, ConcurrentInputs)
    \/ \E i \in Invocations : QuoteFulfils(i)
    \/ \E i \in Invocations : QuoteRejects(i)
    \/ \E i \in Invocations : OrderFulfils(i)
    \/ \E i \in Invocations : OrderRejects(i)
    \/ Tick

SpecConcurrent ==
    Init /\ [][NextConcurrent]_vars

---------------------------------------------------------------------------
\* One invocation whose collaborators answer every call: once a call to
\* getAttestedQuote or createOrder is pending, its promise eventually settles.

SpecResponsive ==
    /\ Init
    /\ [][Next]_vars
    /\ WF_vars(QuoteFulfils(1) \/ QuoteRejects(1))
    /\ WF_vars(OrderFulfils(1) \/ OrderRejects(1))

---------------------------------------------------------------------------
\* validateAmount on its own: one call on any amount string.

InitAmount ==
    /\ arg \in AmountStrings
    /\ ret = NotCalled
    /\ SwapInit

CallValidateAmount ==
    /\ ret = NotCalled
    /\ ret' = validateAmount(arg)
    /\ UNCHANGED << arg, swapVars >>

NextAmount ==
    CallValidateAmount

SpecAmount ==
    InitAmount /\ [][NextAmount]_vars

---------------------------------------------------------------------------
\* validateProps on its own: one call on any props of ValidateInputs.

InitValidate ==
    /\ arg \in ValidateInputs
    /\ ret = NotCalled
    /\ SwapInit

CallValidateProps ==
    /\ ret = NotCalled
    /\ ret' = validateProps(arg)
    /\ UNCHANGED << arg, swapVars >>

NextValidate ==
    CallValidateProps

SpecValidate ==
    InitValidate /\ [][NextValidate]_vars

---------------------------------------------------------------------------
\* Decimal notation, read independently of the BigNumber model: what the
\* statements about amounts mean by "parses", "integer" and "numeric value".

RECURSIVE Pow10(_)
Pow10(n) ==
    IF n = 0 THEN 1 ELSE 10 * Pow10(n - 1)

AllDigits(s) ==
    \A k \in 1..Len(s) : s[k] \in Digits

\* Sum of digit * 10^place.
PlaceValue(s) ==
    LET RECURSIVE Sum(_)
        Sum(k) == IF k > Len(s) THEN 0
                  ELSE DigitValue(s[k]) * Pow10(Len(s) - k) + Sum(k + 1)
    IN  Sum(1)

Unsigned(s) ==
    IF s # << >> /\ s[1] = "-" THEN SubSeq(s, 2, Len(s)) ELSE s

\* The readings of s as [-]int[.frac]: the lengths k of int that make one.
IntLengths(s) ==
    LET b == Unsigned(s)
    IN  { k \in 0..Len(b) :
            /\ AllDigits(SubSeq(b, 1, k))
            /\ \/ k = Len(b) /\ k > 0
               \/ /\ k < Len(b)
                  /\ b[k + 1] = "."
                  /\ AllDigits(SubSeq(b, k + 2, Len(b)))
                  /\ (k > 0 \/ k + 1 < Len(b)) }

ParsesAsNumber(s) ==
    IntLengths(s) # {}

\* For a string that parses: its fraction digits, and its absolute value
\* times 10^(number of fraction digits).
FractionOf(s) ==
    LET b == Unsigned(s)
        k == CHOOSE k \in IntLengths(s) : TRUE
    IN  IF k = Len(b) THEN << >> ELSE SubSeq(b, k + 2, Len(b))

ScaledMagnitude(s) ==
    LET b == Unsigned(s)
        k == CHOOSE k \in IntLengths(s) : TRUE
    IN  PlaceValue(SubSeq(b, 1, k)) * Pow10(Len(FractionOf(s)))
          + PlaceValue(FractionOf(s))

IsNegativeSigned(s) ==
    s # << >> /\ s[1] = "-"

ParsesToNonInteger(s) ==
    ParsesAsNumber(s) /\ ScaledMagnitude(s) % Pow10(Len(FractionOf(s))) # 0

ParsesToNonPositive(s) ==
    ParsesAsNumber(s) /\ (IsNegativeSigned(s) \/ ScaledMagnitude(s) = 0)

\* A string that is a positive integer amount, and its value.
IsPositiveInteger(s) ==
    ParsesAsNumber(s) /\ ~ParsesToNonInteger(s) /\ ~ParsesToNonPositive(s)

IntegerValue(s) ==
    ScaledMagnitude(s) \div Pow10(Len(FractionOf(s)))

\* The numeric value of a BigNumber b is that of the string s.
SameValue(b, s) ==
    /\ ~b.nan
    /\ b.neg = (IsNegativeSigned(s) /\ ScaledMagnitude(s) # 0)
    /\ b.mant * Pow10(Len(FractionOf(s))) = ScaledMagnitude(s) * Pow10(b.dp)

---------------------------------------------------------------------------
---------------------------------------------------------------------------
\* The validation rules as the statements about validateProps word them.
\* A strategyId or btcAddress counts as supplied when it is a non-empty
\* string.

RuleStrategyId(p) ==
    p.additionalData.strategyId \notin { Undefined, EmptyString }

RuleAssetsDiffer(p) ==
    p.fromAsset # p.toAsset

RuleSameNetworkClass(p) ==
    (p.fromAsset.chain \in { "bitcoin", "ethereum" })
        = (p.toAsset.chain \in { "bitcoin", "ethereum" })

RuleSendAmountValid(p) ==
    IsPositiveInteger(p.sendAmount)

RuleReceiveAmountValid(p) ==
    IsPositiveInteger(p.receiveAmount)

\* Meaningful when both amounts are valid.
RuleSendCoversReceive(p) ==
    IntegerValue(p.sendAmount) >= IntegerValue(p.receiveAmount)

HasBitcoinLeg(p) ==
    \/ p.fromAsset.chain \in { "bitcoin", "bitcoin_testnet" }
    \/ p.toAsset.chain \in { "bitcoin", "bitcoin_testnet" }

RuleBtcAddress(p) ==
    HasBitcoinLeg(p) => p.additionalData.btcAddress \notin { Undefined, EmptyString }

\* The error of the earliest violated rule, Undefined when none is violated.
EarliestViolation(p) ==
    IF ~RuleStrategyId(p) THEN << "StrategyId is required" >>
    ELSE IF ~RuleAssetsDiffer(p)
         THEN << "Source and destination assets cannot be the same" >>
    ELSE IF ~RuleSameNetworkClass(p)
         THEN << "Both assets should be on the same network (either mainnet or testnet)" >>
    ELSE IF ~RuleSendAmountValid(p) THEN << "Invalid amount " >> \o p.sendAmount
    ELSE IF ~RuleReceiveAmountValid(p) THEN << "Invalid amount " >> \o p.receiveAmount
    ELSE IF ~RuleSendCoversReceive(p)
         THEN << "Send amount should be greater than receive amount" >>
    ELSE IF ~RuleBtcAddress(p) THEN BtcAddressRequired
    ELSE Undefined

\* How many of the seven rules p violates.
ViolationCount(p) ==
    LET amountsValid == RuleSendAmountValid(p) /\ RuleReceiveAmountValid(p)
    IN  Cardinality(
          { r \in 1..7 :
              \/ r = 1 /\ ~RuleStrategyId(p)
              \/ r = 2 /\ ~RuleAssetsDiffer(p)
              \/ r = 3 /\ ~RuleSameNetworkClass(p)
              \/ r = 4 /\ ~RuleSendAmountValid(p)
              \/ r = 5 /\ ~RuleReceiveAmountValid(p)
              \/ r = 6 /\ amountsValid /\ ~RuleSendCoversReceive(p)
              \/ r = 7 /\ ~RuleBtcAddress(p) })

\* C6: props that pass every other rule are rejected with the
\* send-not-greater-than-receive error when sendAmount is numerically less
\* than receiveAmount, and accepted when it equals or exceeds it.
C6_SendBelowReceiveRejected ==
    ( /\ ret # NotCalled
      /\ RuleStrategyId(arg) /\ RuleAssetsDiffer(arg) /\ RuleSameNetworkClass(arg)
      /\ RuleSendAmountValid(arg) /\ RuleReceiveAmountValid(arg)
      /\ RuleBtcAddress(arg) )
    => IF RuleSendCoversReceive(arg)
       THEN ret.ok
       ELSE ~ret.ok /\ ret.error = << "Send amount should be greater than receive amount" >>

\* C8: when props violate several rules at once, validateProps returns the
\* error of the earliest violated rule in the fixed order.
C8_EarliestRuleWins ==
    (ret # NotCalled /\ ViolationCount(arg) >= 2)
    => ~ret.ok /\ ret.error = EarliestViolation(arg)

\* C10 as stated: props that pass all earlier rules are rejected with the
\* missing-btcAddress error if and only if a leg is Bitcoin-family and
\* additionalData.btcAddress is absent.
C10_RejectedIffAbsent ==
    ( /\ ret # NotCalled
      /\ RuleStrategyId(arg) /\ RuleAssetsDiffer(arg) /\ RuleSameNetworkClass(arg)
      /\ RuleSendAmountValid(arg) /\ RuleReceiveAmountValid(arg)
      /\ RuleSendCoversReceive(arg) )
    => /\ (~ret.ok /\ ret.error = BtcAddressRequired)
            <=> (HasBitcoinLeg(arg) /\ arg.additionalData.btcAddress = Undefined)
       /\ ~HasBitcoinLeg(arg) => ret.ok

\* C10 amended: ... if and only if a leg is Bitcoin-family and
\* additionalData.btcAddress is absent or the empty string; otherwise such
\* props are accepted, so with no Bitcoin-family leg btcAddress may be absent.
C10_RejectedIffAbsentOrEmpty ==
    ( /\ ret # NotCalled
      /\ RuleStrategyId(arg) /\ RuleAssetsDiffer(arg) /\ RuleSameNetworkClass(arg)
      /\ RuleSendAmountValid(arg) /\ RuleReceiveAmountValid(arg)
      /\ RuleSendCoversReceive(arg) )
    => /\ (~ret.ok /\ ret.error = BtcAddressRequired)
            <=> ( /\ HasBitcoinLeg(arg)
                  /\ arg.additionalData.btcAddress \in { Undefined, EmptyString } )
       /\ ~(HasBitcoinLeg(arg)
              /\ arg.additionalData.btcAddress \in { Undefined, EmptyString })
            => ret = [ok |-> TRUE, val |-> arg, error |-> Undefined]

\* ethereum -> bitcoin with no btcAddress, all earlier rules passed, rejected.
C10_Witness ==
    /\ ret # NotCalled
    /\ arg.fromAsset.chain = "ethereum"
    /\ arg.toAsset.chain = "bitcoin"
    /\ arg.additionalData.btcAddress = Undefined
    /\ arg.additionalData.strategyId = << "s1" >>
    /\ arg.sendAmount = << "1", "0" >>
    /\ arg.receiveAmount = << "9" >>
    /\ ~ret.ok
    /\ ret.error = BtcAddressRequired

---------------------------------------------------------------------------
\* Statements about swap.  They read invocation 1, the one Spec runs.

\* The invocation's props pass validateProps (valid props).
ValidProps(i) ==
    props[i] # NoProps /\ validateProps(props[i]).ok

\* C1: for valid props, if getAttestedQuote returns an error, swap resolves
\* to a failure carrying exactly that error, and createOrder is never invoked.
C1_QuoteErrorForwarded ==
    ( /\ ValidProps(1)
      /\ quoteResp[1].state = "fulfilled"
      /\ ~quoteResp[1].ok )
    => /\ outcome[1].state = "resolved"
       /\ ~outcome[1].ok
       /\ outcome[1].error = quoteResp[1].error
       /\ orderCalls[1] = << >>

\* C2: for valid props, if getAttestedQuote succeeds and createOrder returns
\* an error, swap resolves to a failure carrying exactly createOrder's error,
\* and no orderId or secret.
C2_OrderErrorForwarded ==
    ( /\ ValidProps(1)
      /\ quoteResp[1].state = "fulfilled" /\ quoteResp[1].ok
      /\ orderResp[1].state = "fulfilled" /\ ~orderResp[1].ok )
    => /\ outcome[1].state = "resolved"
       /\ ~outcome[1].ok
       /\ outcome[1].error = orderResp[1].error
       /\ outcome[1].orderId = Undefined
       /\ outcome[1].secret = Undefined

\* C3: whenever swap resolves to success, the returned orderId is the
\* identifier createOrder returned, and the returned secret is the one
\* derived in this invocation, whose hash without its 0x prefix is the
\* secret_hash of the order request passed to getAttestedQuote.
C3_SuccessCarriesOrderIdAndSecret ==
    (outcome[1].state = "resolved" /\ outcome[1].ok)
    => /\ orderResp[1].state = "fulfilled"
       /\ orderResp[1].ok
       /\ orderResp[1].val \in OrderIds
       /\ outcome[1].orderId = orderResp[1].val
       /\ Len(secretCalls[1]) = 1
       /\ outcome[1].secret =
              DeriveSecret(secretCalls[1][1].digestKey, secretCalls[1][1].nonce)
       /\ Len(quoteCalls[1]) = 1
       /\ << "0", "x" >> \o quoteCalls[1][1].secret_hash
              = SecretHashOf(outcome[1].secret)

\* needle occurs in hay as a run of consecutive elements.
Contains(hay, needle) ==
    \E k \in 0..(Len(hay) - Len(needle)) :
        SubSeq(hay, k + 1, k + Len(needle)) = needle

\* Every string an order request carries.
RequestStrings(req) ==
    { req.additional_data.strategy_id,
      req.additional_data.bitcoin_optional_recipient,
      req.destination_amount, req.destination_asset, << req.destination_chain >>,
      req.fee, req.initiator_destination_address, req.initiator_source_address,
      req.nonce, req.secret_hash, req.source_amount, req.source_asset,
      << req.source_chain >> }

\* C4: no argument passed to the quote collaborator (the order request) or
\* to the order-submission collaborator (attested quote, auth context)
\* contains the derived secret; the request carries the secret's hash; the
\* caller is given the secret only in the final success result.
C4_SecretWithheld ==
    /\ secret[1] # Undefined =>
        /\ \A k \in 1..Len(quoteCalls[1]) :
              /\ \A str \in RequestStrings(quoteCalls[1][k]) :
                     ~Contains(str, secret[1])
              /\ << "0", "x" >> \o quoteCalls[1][k].secret_hash
                     = SecretHashOf(secret[1])
        /\ \A k \in 1..Len(orderCalls[1]) :
              /\ ~Contains(orderCalls[1][k].attestedQuote, secret[1])
              /\ ~Contains(orderCalls[1][k].auth, secret[1])
        /\ ~Contains(outcome[1].error, secret[1])
    /\ outcome[1].secret # Undefined =>
        /\ outcome[1].state = "resolved"
        /\ outcome[1].ok
        /\ pc[1] = "done"
        /\ outcome[1].secret = secret[1]

\* swap has resolved to success with the secret, after one call to each
\* collaborator.
C4_Witness ==
    /\ outcome[1].state = "resolved"
    /\ outcome[1].ok
    /\ outcome[1].secret = secret[1]
    /\ secret[1] # Undefined
    /\ Len(quoteCalls[1]) = 1
    /\ Len(orderCalls[1]) = 1
    /\ orderCalls[1][1].attestedQuote \in AttestedQuotes

\* C5: for props that validateProps rejects, swap resolves to a failure
\* carrying exactly validateProps's error message and calls neither
\* getAttestedQuote nor createOrder, nor derives a secret; so with a
\* Bitcoin-family toAsset and no btcAddress (and nothing else wrong) it
\* fails with the missing-btcAddress message.
C5_ValidationFailureShortCircuits ==
    /\ (props[1] # NoProps /\ ~validateProps(props[1]).ok)
        => /\ outcome[1].state = "resolved"
           /\ ~outcome[1].ok
           /\ outcome[1].error = validateProps(props[1]).error
           /\ outcome[1].orderId = Undefined
           /\ outcome[1].secret = Undefined
           /\ pc[1] = "done"
           /\ secretCalls[1] = << >>
           /\ quoteCalls[1] = << >>
           /\ orderCalls[1] = << >>
           /\ secret[1] = Undefined
    /\ ( /\ props[1] # NoProps
         /\ EarliestViolation(props[1]) = BtcAddressRequired
         /\ ViolationCount(props[1]) = 1 )
        => /\ outcome[1] = Resolved(FALSE, BtcAddressRequired, Undefined, Undefined)
           /\ quoteCalls[1] = << >>
           /\ orderCalls[1] = << >>

\* ethereum -> bitcoin without btcAddress: swap has failed with the
\* missing-btcAddress message and has called no collaborator.
C5_Witness ==
    /\ props[1] # NoProps
    /\ props[1].fromAsset.chain = "ethereum"
    /\ props[1].toAsset.chain = "bitcoin"
    /\ props[1].additionalData.btcAddress = Undefined
    /\ outcome[1] = Resolved(FALSE, BtcAddressRequired, Undefined, Undefined)
    /\ quoteCalls[1] = << >>
    /\ orderCalls[1] = << >>

\* C7: every invocation of swap, whichever step fails and however the
\* collaborator signals the failure, ends with its promise resolved to a
\* tagged result value; the promise never rejects.
C7_NeverRejects ==
    /\ outcome[1].state \in { "pending", "resolved" }
    /\ pc[1] = "done" => outcome[1].state = "resolved"

---------------------------------------------------------------------------
\* C11: with strategyId supplied, validateProps rejects with the
\* identical-assets error exactly when fromAsset.chain equals toAsset.chain
\* and fromAsset.atomicSwapAddress equals toAsset.atomicSwapAddress, whatever
\* the other fields are; a match of the chain only or of the address only is
\* not rejected by this rule.
C11_IdenticalAssetsRule ==
    (ret # NotCalled /\ RuleStrategyId(arg))
    => ( (~ret.ok /\ ret.error = << "Source and destination assets cannot be the same" >>)
         <=> ( /\ arg.fromAsset.chain = arg.toAsset.chain
               /\ arg.fromAsset.atomicSwapAddress = arg.toAsset.atomicSwapAddress ) )

\* Identical assets rejected although the amounts are invalid and the
\* btcAddress is missing as well.
C11_Witness ==
    /\ ret # NotCalled
    /\ arg.additionalData.strategyId = << "s1" >>
    /\ arg.fromAsset = [chain |-> "bitcoin", atomicSwapAddress |-> << "0xB" >>]
    /\ arg.toAsset = arg.fromAsset
    /\ arg.sendAmount = << "a" >>
    /\ arg.additionalData.btcAddress = Undefined
    /\ ret = [ok |-> FALSE, val |-> NoProps, error |-> SameAssets]

\* C12: with strategyId supplied and non-identical assets, validateProps
\* rejects with the network-mismatch error exactly when one asset's chain is
\* mainnet and the other's is not, whichever of the two is the mainnet one.
C12_NetworkMismatchRule ==
    (ret # NotCalled /\ RuleStrategyId(arg) /\ RuleAssetsDiffer(arg))
    => LET fromMain == arg.fromAsset.chain \in { "bitcoin", "ethereum" }
           toMain   == arg.toAsset.chain \in { "bitcoin", "ethereum" }
           mismatch == << "Both assets should be on the same network (either mainnet or testnet)" >>
       IN  /\ (fromMain /\ ~toMain) => (~ret.ok /\ ret.error = mismatch)
           /\ (~fromMain /\ toMain) => (~ret.ok /\ ret.error = mismatch)
           /\ (fromMain = toMain) => (ret.ok \/ ret.error # mismatch)

\* A testnet source with a mainnet destination has been rejected.
C12_Witness ==
    /\ ret # NotCalled
    /\ arg.additionalData.strategyId = << "s1" >>
    /\ arg.fromAsset.chain = "ethereum_sepolia"
    /\ arg.toAsset.chain = "bitcoin"
    /\ ret = [ok |-> FALSE, val |-> NoProps, error |-> NetworkMismatch]

---------------------------------------------------------------------------
\* Both invocations have derived a secret.
BothDerived ==
    secret[1] # Undefined /\ secret[2] # Undefined

\* What invocation i's promise must have settled to, read from nothing but
\* that invocation's own props, clock reading and collaborator responses.
OwnOutcome(i) ==
    LET v == validateProps(props[i])
    IN  IF pc[i] # "done" THEN Pending
        ELSE IF ~v.ok THEN Resolved(FALSE, v.error, Undefined, Undefined)
        ELSE IF ~secretResp[i].ok
             THEN Resolved(FALSE, secretResp[i].error, Undefined, Undefined)
        ELSE IF quoteResp[i].state = "rejected" THEN PromiseRejected
        ELSE IF quoteResp[i].error \notin { Undefined, EmptyString }
             THEN Resolved(FALSE, quoteResp[i].error, Undefined, Undefined)
        ELSE IF orderResp[i].state = "rejected" THEN PromiseRejected
        ELSE IF orderResp[i].error \notin { Undefined, EmptyString }
             THEN Resolved(FALSE, orderResp[i].error, Undefined, Undefined)
        ELSE Resolved(TRUE, Undefined, orderResp[i].val,
                      digestKey \o << ":" >> \o NumberToString(calledAt[i]))

\* C13 as stated: two invocations that use the same digest key derive
\* different nonces and therefore different secrets, under any interleaving.
C13_AlwaysDistinctSecrets ==
    BothDerived => nonce[1] # nonce[2] /\ secret[1] # secret[2]

\* C13 amended: two invocations that use the same digest key and read
\* different values of the clock derive different nonces and different
\* secrets, under any interleaving, and neither invocation's result depends
\* on the other's steps.
C13_DistinctSecretsAtDistinctTimes ==
    /\ (BothDerived /\ calledAt[1] # calledAt[2])
        => nonce[1] # nonce[2] /\ secret[1] # secret[2]
    /\ \A i \in Invocations : outcome[i] = OwnOutcome(i)

\* Both invocations have succeeded, started at different clock values, each
\* with its own secret and its own order.
C13_Witness ==
    /\ calledAt[1] = 0
    /\ calledAt[2] = 1
    /\ outcome[1].state = "resolved" /\ outcome[1].ok
    /\ outcome[2].state = "resolved" /\ outcome[2].ok
    /\ outcome[1].secret # outcome[2].secret
    /\ outcome[1].orderId # outcome[2].orderId

---------------------------------------------------------------------------
\* C14: in the order request sent to getAttestedQuote each leg's initiator
\* address is resolved independently: btcPublicKey when that leg's chain is
\* Bitcoin-family and evmAddress otherwise, for every btcPublicKey and
\* evmAddress the caller supplies.
C14_AddressPerLeg ==
    \A k \in 1..Len(quoteCalls[1]) :
        LET req == quoteCalls[1][k]
            p   == props[1]
        IN  /\ req.initiator_source_address =
                  IF p.fromAsset.chain \in { "bitcoin", "bitcoin_testnet" }
                  THEN p.btcPublicKey ELSE p.evmAddress
            /\ req.initiator_destination_address =
                  IF p.toAsset.chain \in { "bitcoin", "bitcoin_testnet" }
                  THEN p.btcPublicKey ELSE p.evmAddress

\* C15: within one invocation getAttestedQuote and createOrder are each
\* called at most once; createOrder is called only after getAttestedQuote
\* has returned a success, with exactly the attested quote that call
\* returned and the auth context; nothing is retried.
C15_OneCallEachInOrder ==
    /\ Len(quoteCalls[1]) <= 1
    /\ Len(orderCalls[1]) <= 1
    /\ Len(secretCalls[1]) <= 1
    /\ orderCalls[1] # << >> =>
        /\ Len(quoteCalls[1]) = 1
        /\ quoteResp[1].state = "fulfilled"
        /\ quoteResp[1].ok
        /\ quoteResp[1].val \in AttestedQuotes
        /\ orderCalls[1][1] = [attestedQuote |-> quoteResp[1].val, auth |-> auth]

\* C16: if props are valid and generateSecret fails, swap resolves to a
\* failure carrying exactly generateSecret's error, builds no order request
\* and calls neither getAttestedQuote nor createOrder.
C16_SecretFailureShortCircuits ==
    (ValidProps(1) /\ secretResp[1] # NotCalled /\ ~secretResp[1].ok)
    => /\ outcome[1] = Resolved(FALSE, secretResp[1].error, Undefined, Undefined)
       /\ pc[1] = "done"
       /\ quoteCalls[1] = << >>
       /\ orderCalls[1] = << >>
       /\ quoteResp[1] = NoResponse
       /\ orderResp[1] = NoResponse

\* generateSecret has failed on valid props and swap has failed with its error.
C16_Witness ==
    /\ ValidProps(1)
    /\ Len(secretCalls[1]) = 1
    /\ secretResp[1] # NotCalled
    /\ ~secretResp[1].ok
    /\ outcome[1].state = "resolved"
    /\ outcome[1].error = SecretDerivationError
    /\ quoteCalls[1] = << >>

\* C18: in every invocation that reaches the quote step, the nonce of the
\* order request is the nonce that was passed to generateSecret to derive
\* the secret whose hash is in that request, and the request's timelock is
\* that of fromAsset.chain, not of toAsset.chain.
C18_NonceAndSourceTimelock ==
    \A k \in 1..Len(quoteCalls[1]) :
        LET req == quoteCalls[1][k]
        IN  /\ Len(secretCalls[1]) = 1
            /\ req.nonce = secretCalls[1][1].nonce
            /\ req.nonce = NumberToString(calledAt[1])
            /\ secretResp[1].ok
            /\ secretResp[1].val.secret = secret[1]
            /\ << "0", "x" >> \o req.secret_hash = secretResp[1].val.secretHash
            /\ secret[1] = DeriveSecret(secretCalls[1][1].digestKey, req.nonce)
            /\ req.timelock = getTimeLock(props[1].fromAsset.chain)
            /\ req.source_chain = props[1].fromAsset.chain

\* An ethereum -> bitcoin request sent at clock value 1: nonce "1", the
\* timelock of ethereum, which differs from bitcoin's.
C18_Witness ==
    /\ Len(quoteCalls[1]) = 1
    /\ calledAt[1] = 1
    /\ props[1].fromAsset.chain = "ethereum"
    /\ props[1].toAsset.chain = "bitcoin"
    /\ quoteCalls[1][1].nonce = << "1" >>
    /\ secretCalls[1][1].nonce = << "1" >>
    /\ quoteCalls[1][1].timelock = 7200
    /\ getTimeLock("bitcoin") # 7200

\* C19: whenever swap sends an order request with a Bitcoin-family leg, the
\* additionalData.btcAddress that validateProps required is carried in the
\* request's additional_data (as bitcoin_optional_recipient), for every
\* btcRecipientAddress.
C19_BtcAddressCarried ==
    \A k \in 1..Len(quoteCalls[1]) :
        HasBitcoinLeg(props[1])
        => /\ props[1].additionalData.btcAddress \notin { Undefined, EmptyString }
           /\ quoteCalls[1][k].additional_data.bitcoin_optional_recipient
                  = props[1].additionalData.btcAddress

\* C20: swap resolves to success only if both getAttestedQuote and
\* createOrder returned a success result; for every failure result of a
\* collaborator (ok = false), the empty error string included, swap resolves
\* to a failure, and after a failing getAttestedQuote createOrder is not called.
C20_FailureResultsFail ==
    /\ (outcome[1].state = "resolved" /\ outcome[1].ok)
        => quoteResp[1].ok /\ orderResp[1].ok
    /\ (quoteResp[1].state = "fulfilled" /\ ~quoteResp[1].ok)
        => /\ outcome[1].state = "resolved" /\ ~outcome[1].ok
           /\ orderCalls[1] = << >>
    /\ (orderResp[1].state = "fulfilled" /\ ~orderResp[1].ok)
        => outcome[1].state = "resolved" /\ ~outcome[1].ok

---------------------------------------------------------------------------
\* The states of the invocation: Validating and DerivingSecret are passed
\* within the synchronous part of the call; AwaitingQuote and
\* SubmittingOrder are the two suspension points; Done and Failed are the
\* settled promise.
Stage(i) ==
    CASE pc[i] = "idle" -> 0
      [] pc[i] = "awaitQuote" -> 1
      [] pc[i] = "awaitOrder" -> 2
      [] pc[i] = "done" -> 3

\* C17: an invocation of swap moves only forward through its states and,
\* provided each collaborator call it issues eventually responds, reaches
\* Done or Failed; its promise settles then and only then, exactly once, and
\* as a resolution whenever the collaborators' promises fulfilled.
C17_ForwardAndTerminates ==
    /\ [][Stage(1)' >= Stage(1)]_vars
    /\ [][outcome[1] # Pending => outcome'[1] = outcome[1]]_vars
    /\ [](pc[1] = "done" <=> outcome[1] # Pending)
    /\ [](( /\ pc[1] = "done"
            /\ quoteResp[1].state # "rejected"
            /\ orderResp[1].state # "rejected" )
          => outcome[1].state = "resolved")
    /\ (pc[1] \in { "awaitQuote", "awaitOrder" }) ~> (pc[1] = "done")

\* swap has passed both suspension points and resolved to success.
C17_Witness ==
    /\ pc[1] = "done"
    /\ quoteResp[1].state = "fulfilled"
    /\ orderResp[1].state = "fulfilled"
    /\ outcome[1].state = "resolved"
    /\ outcome[1].ok

=============================================================================
